---------------------------- MODULE Spec2Model ----------------------------
(***************************************************************************)
(* Model of sql/run_sql.py: the quote-aware statement splitter, the        *)
(* comment cleaner and the fail-fast sequential runner.                    *)
(*                                                                         *)
(* A Python str is a sequence of one-character strings.  Python indexes    *)
(* from 0, TLA+ sequences from 1: the cursor i of the scanner keeps its    *)
(* Python value and the character it reads is s[i + 1].                    *)
(***************************************************************************)
EXTENDS Integers, Sequences, FiniteSets, TLC

(***************************************************************************)
(* Bounds and input documents.                                             *)
(***************************************************************************)
MaxLen == 4

\* the width of the preview of a progress line
PreviewLen == 80

Alphabet == {"a", " ", "\n", ";", "'", "\"", "\\", "-"}

DocBoundary ==
    <<"S", "E", "L", "E", "C", "T", " ", "'", ";", "'", " ", "A", "S", " ",
      "x", ";", " ", "S", "E", "L", "E", "C", "T", " ", "2", ";">>

StmtBoundary1 ==
    <<"S", "E", "L", "E", "C", "T", " ", "'", ";", "'", " ", "A", "S", " ", "x">>

StmtSelect1 ==
    <<"S", "E", "L", "E", "C", "T", " ", "1">>

StmtSelect2 ==
    <<"S", "E", "L", "E", "C", "T", " ", "2">>

DocEscape ==
    <<"S", "E", "L", "E", "C", "T", " ", "'", "a", "\\", "'", "b", "'", ";">>

StmtEscape ==
    <<"S", "E", "L", "E", "C", "T", " ", "'", "a", "\\", "'", "b", "'">>

DocNoTrailing ==
    <<"S", "E", "L", "E", "C", "T", " ", "1", ";", " ", "S", "E", "L", "E",
      "C", "T", " ", "2">>

DocThree ==
    <<"a", ";", "b", ";", "c">>

DocCommentOnly ==
    <<"\n", "-", "-", " ", "a", " ", "c", "o", "m", "m", "e", "n", "t", "\n">>

DocCommentSql ==
    <<"-", "-", " ", "c", "\n", "S", "E", "L", "E", "C", "T", " ", "1">>

DocMixed ==
    <<"-", "-", " ", "c", ";", "a", ";", ";", "-", "-", "\n", ";", "b">>

\* SELECT 1 -- x / /* b */ SELECT 2 on two lines
DocInline ==
    <<"S", "E", "L", "E", "C", "T", " ", "1", " ", "-", "-", " ", "x", "\n",
      "/", "*", " ", "b", " ", "*", "/", " ", "S", "E", "L", "E", "C", "T",
      " ", "2">>

\* longer than the preview, but not once its whitespace is collapsed
DocWide ==
    [j \in 1..(PreviewLen + 2) |->
        IF j = 1 THEN "a" ELSE IF j = PreviewLen + 2 THEN "b" ELSE " "]

\* one character too long for the preview
DocLong == [j \in 1..(PreviewLen + 1) |-> "a"]

\* a\;b : an escaped semicolon outside any literal
DocEscapedSemi ==
    <<"a", "\\", ";", "b">>

\* a comment line, then an indented line of SQL
DocCommentIndent ==
    <<"-", "-", "\n", " ", "a">>

ExampleDocs ==
    {DocBoundary, DocEscape, DocNoTrailing, DocThree, DocCommentOnly,
     DocCommentSql, DocMixed, DocInline, DocWide, DocLong, DocEscapedSemi,
     DocCommentIndent}

BoundedDocs == UNION {[1..n -> Alphabet] : n \in 0..MaxLen}

Docs == BoundedDocs \cup ExampleDocs

(***************************************************************************)
(* Python str primitives used by the program.                              *)
(***************************************************************************)
Whitespace == {" ", "\n", "\t", "\r", "\f"}

IsSpace(c) == c \in Whitespace

RECURSIVE lstrip(_)
lstrip(s) ==
    IF s = <<>> THEN <<>>
    ELSE IF IsSpace(Head(s)) THEN lstrip(Tail(s)) ELSE s

RECURSIVE rstrip(_)
rstrip(s) ==
    IF s = <<>> THEN <<>>
    ELSE IF IsSpace(s[Len(s)]) THEN rstrip(SubSeq(s, 1, Len(s) - 1)) ELSE s

\* str.strip()
strip(s) == rstrip(lstrip(s))

\* str.startswith('--')
startswith_comment(s) == Len(s) >= 2 /\ s[1] = "-" /\ s[2] = "-"

\* str.split('\n'): always at least one line
RECURSIVE split_lines(_)
split_lines(s) ==
    IF \A p \in 1..Len(s) : s[p] # "\n" THEN <<s>>
    ELSE LET p == CHOOSE q \in 1..Len(s) :
                    s[q] = "\n" /\ \A r \in 1..(q - 1) : s[r] # "\n"
         IN  <<SubSeq(s, 1, p - 1)>> \o split_lines(SubSeq(s, p + 1, Len(s)))

\* sep.join(parts)
RECURSIVE join(_, _)
join(sep, parts) ==
    IF parts = <<>> THEN <<>>
    ELSE IF Len(parts) = 1 THEN parts[1]
    ELSE parts[1] \o sep \o join(sep, Tail(parts))

\* str.split(): the maximal runs of non-whitespace characters
RECURSIVE split_ws(_)
split_ws(s) ==
    LET t == lstrip(s) IN
    IF t = <<>> THEN <<>>
    ELSE LET n == IF \E p \in 1..Len(t) : IsSpace(t[p])
                  THEN (CHOOSE q \in 1..Len(t) :
                           IsSpace(t[q]) /\ \A r \in 1..(q - 1) : ~IsSpace(t[r])) - 1
                  ELSE Len(t)
         IN  <<SubSeq(t, 1, n)>> \o split_ws(SubSeq(t, n + 1, Len(t)))

(***************************************************************************)
(* split_statements: one iteration of the scan loop on the frame st of     *)
(* locals (statements, current, in_single_quote, in_double_quote, i).      *)
(***************************************************************************)
\* variant: the escape branch is never taken
IsEscape_Never(s, i) == FALSE

\* variant: the lookahead is not guarded by the length of the input
IsEscape_NoBound(s, i) == s[i + 1] = "\\"

\* the escape test of the scan loop
IsEscape(s, i) == s[i + 1] = "\\" /\ i + 1 < Len(s)

\* variant: a quote toggles its flag whatever the other flag is
track_quotes_Unguarded(char, sq, dq) ==
    IF char = "'" THEN <<~sq, dq>>
    ELSE IF char = "\"" THEN <<sq, ~dq>>
    ELSE <<sq, dq>>

\* variant: inside a literal a quote of either kind closes it
track_quotes_AnyCloses(char, sq, dq) ==
    IF char \in {"'", "\""} /\ (sq \/ dq) THEN <<FALSE, FALSE>>
    ELSE IF char = "'" THEN <<TRUE, dq>>
    ELSE IF char = "\"" THEN <<sq, TRUE>>
    ELSE <<sq, dq>>

\* variant: the end of a line closes an open literal
track_quotes_NewlineCloses(char, sq, dq) ==
    IF char = "\n" THEN <<FALSE, FALSE>>
    ELSE IF char = "'" /\ ~dq THEN <<~sq, dq>>
    ELSE IF char = "\"" /\ ~sq THEN <<sq, ~dq>>
    ELSE <<sq, dq>>

\* the two quote flags after reading char
track_quotes(char, sq, dq) ==
    IF char = "'" /\ ~dq THEN <<~sq, dq>>
    ELSE IF char = "\"" /\ ~sq THEN <<sq, ~dq>>
    ELSE <<sq, dq>>

\* variant: every semicolon splits
IsSplitPoint_AnySemicolon(char, sq, dq) == char = ";"

\* the split test, on the flags as updated for char
IsSplitPoint(char, sq, dq) == char = ";" /\ ~sq /\ ~dq

\* variant: the emptiness test is missing
emit_KeepEmpty(stmts, current) == Append(stmts, strip(current))

\* stmt = ''.join(current).strip(); if stmt: statements.append(stmt)
emit(stmts, current) ==
    LET stmt == strip(current) IN
    IF stmt # <<>> THEN Append(stmts, stmt) ELSE stmts

scan_init ==
    [statements |-> <<>>, current |-> <<>>, in_single_quote |-> FALSE,
     in_double_quote |-> FALSE, i |-> 0]

\* variant: the buffer is not reset at a split point
scan_step_NoReset(s, st) ==
    LET char == s[st.i + 1] IN
    IF IsEscape(s, st.i)
    THEN [st EXCEPT !.current = st.current \o <<char, s[st.i + 2]>>,
                    !.i = st.i + 2]
    ELSE LET q == track_quotes(char, st.in_single_quote, st.in_double_quote) IN
         IF IsSplitPoint(char, q[1], q[2])
         THEN [st EXCEPT !.in_single_quote = q[1],
                         !.in_double_quote = q[2],
                         !.statements = emit(st.statements, st.current),
                         !.i = st.i + 1]
         ELSE [st EXCEPT !.in_single_quote = q[1],
                         !.in_double_quote = q[2],
                         !.current = Append(st.current, char),
                         !.i = st.i + 1]

\* variant: the escape branch is taken only inside a quoted literal
scan_step_EscapeInQuotes(s, st) ==
    LET char == s[st.i + 1] IN
    IF IsEscape(s, st.i) /\ (st.in_single_quote \/ st.in_double_quote)
    THEN [st EXCEPT !.current = st.current \o <<char, s[st.i + 2]>>,
                    !.i = st.i + 2]
    ELSE LET q == track_quotes(char, st.in_single_quote, st.in_double_quote) IN
         IF IsSplitPoint(char, q[1], q[2])
         THEN [st EXCEPT !.in_single_quote = q[1],
                         !.in_double_quote = q[2],
                         !.statements = emit(st.statements, st.current),
                         !.current = <<>>,
                         !.i = st.i + 1]
         ELSE [st EXCEPT !.in_single_quote = q[1],
                         !.in_double_quote = q[2],
                         !.current = Append(st.current, char),
                         !.i = st.i + 1]

\* variant: the semicolon of a split point is kept in the statement
scan_step_KeepsSemicolon(s, st) ==
    LET char == s[st.i + 1] IN
    IF IsEscape(s, st.i)
    THEN [st EXCEPT !.current = st.current \o <<char, s[st.i + 2]>>,
                    !.i = st.i + 2]
    ELSE LET q == track_quotes(char, st.in_single_quote, st.in_double_quote) IN
         IF IsSplitPoint(char, q[1], q[2])
         THEN [st EXCEPT !.in_single_quote = q[1],
                         !.in_double_quote = q[2],
                         !.statements = emit(st.statements,
                                             Append(st.current, char)),
                         !.current = <<>>,
                         !.i = st.i + 1]
         ELSE [st EXCEPT !.in_single_quote = q[1],
                         !.in_double_quote = q[2],
                         !.current = Append(st.current, char),
                         !.i = st.i + 1]

scan_step(s, st) ==
    LET char == s[st.i + 1] IN
    IF IsEscape(s, st.i)
    THEN [st EXCEPT !.current = st.current \o <<char, s[st.i + 2]>>,
                    !.i = st.i + 2]
    ELSE LET q == track_quotes(char, st.in_single_quote, st.in_double_quote) IN
         IF IsSplitPoint(char, q[1], q[2])
         THEN [st EXCEPT !.in_single_quote = q[1],
                         !.in_double_quote = q[2],
                         !.statements = emit(st.statements, st.current),
                         !.current = <<>>,
                         !.i = st.i + 1]
         ELSE [st EXCEPT !.in_single_quote = q[1],
                         !.in_double_quote = q[2],
                         !.current = Append(st.current, char),
                         !.i = st.i + 1]

\* whether the iteration on frame st takes the split branch
is_split_step(s, st) ==
    /\ ~IsEscape(s, st.i)
    /\ LET q == track_quotes(s[st.i + 1], st.in_single_quote,
                             st.in_double_quote)
       IN  IsSplitPoint(s[st.i + 1], q[1], q[2])

\* variant: the buffer left at end of input is forgotten
scan_result_NoTail(st) == st.statements

\* variant: a buffer that ends inside a quoted literal is dropped
scan_result_DropUnterminated(st) ==
    IF st.in_single_quote \/ st.in_double_quote
    THEN st.statements
    ELSE emit(st.statements, st.current)

\* the statements returned once the loop has ended
scan_result(st) == emit(st.statements, st.current)

(***************************************************************************)
(* clean_statement                                                         *)
(***************************************************************************)
\* variant: a line with -- anywhere in it is dropped
keep_line_NoInline(line) ==
    /\ strip(line) # <<>>
    /\ \A p \in 1..(Len(line) - 1) : ~(line[p] = "-" /\ line[p + 1] = "-")

\* variant: the comment test is missing
keep_line_NoCommentTest(line) == strip(line) # <<>>

keep_line(line) == strip(line) # <<>> /\ ~startswith_comment(strip(line))

\* variant: the trimmed line is kept instead of the line
clean_statement_StripLines(stmt) ==
    LET lines == SelectSeq(split_lines(stmt), keep_line) IN
    strip(join(<<"\n">>, [j \in 1..Len(lines) |-> strip(lines[j])]))

\* variant: the joined lines are not trimmed
clean_statement_NoOuterStrip(stmt) ==
    join(<<"\n">>, SelectSeq(split_lines(stmt), keep_line))

clean_statement(stmt) ==
    strip(join(<<"\n">>, SelectSeq(split_lines(stmt), keep_line)))

(***************************************************************************)
(* The preview of the progress line.                                       *)
(***************************************************************************)
Ellipsis == <<".", ".", ".">>

preview_of(stmt) ==
    LET collapsed == join(<<" ">>, split_ws(stmt))
        cut == SubSeq(collapsed, 1, IF Len(collapsed) < PreviewLen
                                    THEN Len(collapsed) ELSE PreviewLen)
    IN  IF Len(stmt) > PreviewLen THEN cut \o Ellipsis ELSE cut

(***************************************************************************)
(* State.                                                                  *)
(***************************************************************************)
VARIABLES
    file_text,       \* the content of the file at filepath
    pc,              \* position of run_sql_file
    sql_content,     \* the text read from the file
    scan,            \* the frame of split_statements
    splits,          \* cursor positions at which the scanner split
    raw_statements,  \* what split_statements returned
    k,               \* number of raw statements already cleaned
    statements,      \* the cleaned, non-empty statements
    clients,         \* number of bigquery.Client handles created
    i,               \* loop position of the execution loop (1-based)
    calls,           \* the service's log: one record per client.query
    out,             \* the lines printed
    exit_status,     \* exit status of the process once pc is terminal
    argv_len,        \* len(sys.argv), the script name included
    file_state,      \* "ok", "missing" or "unreadable": the file at filepath
    env_project,     \* GCP_PROJECT_ID: <<>> if unset, else <<value>>
    env_credentials, \* GOOGLE_APPLICATION_CREDENTIALS, likewise
    project_id,      \* the project passed to run_sql_file
    history,         \* the calls of split_statements made on its own
    script,          \* the script the process runs
    step,            \* position of a script other than run_sql.py
    fetched,             \* number of DATASETS already fetched
    datasets,        \* the list built by extract_dataset_metadata
    log              \* the lines printed by a script other than run_sql.py

\* the state of the scripts other than run_sql.py
other_script_vars == <<script, step, fetched, datasets, log>>

\* the state that run_sql_file does not change
outer_vars ==
    <<argv_len, file_state, env_project, env_credentials, project_id, history,
      other_script_vars>>

vars == <<file_text, pc, sql_content, scan, splits, raw_statements, k,
          statements, clients, i, calls, out, exit_status, argv_len,
          file_state, env_project, env_credentials, project_id, history,
          script, step, fetched, datasets, log>>

\* the process runs run_sql.py: the state of the other scripts stays as it is
NoOtherScript ==
    /\ script = "run_sql"
    /\ step = "none"
    /\ fetched = 0
    /\ datasets = <<>>
    /\ log = <<>>

\* the fallback of os.environ.get('GCP_PROJECT_ID', ...)
DefaultProject == "bq-metadata-spike"

Line(kind, pos, total, text) ==
    [kind |-> kind, pos |-> pos, total |-> total, text |-> text]

Init ==
    /\ file_text \in Docs
    /\ pc = "start"
    /\ sql_content = <<>>
    /\ scan = scan_init
    /\ splits = {}
    /\ raw_statements = <<>>
    /\ k = 0
    /\ statements = <<>>
    /\ clients = 0
    /\ i = 0
    /\ calls = <<>>
    /\ out = <<>>
    /\ exit_status = 0
    /\ argv_len = 2
    /\ file_state = "ok"
    /\ env_project = <<>>
    /\ env_credentials = <<>>
    /\ project_id = DefaultProject
    /\ history = <<>>
    /\ NoOtherScript

(***************************************************************************)
(* run_sql_file                                                            *)
(***************************************************************************)
\* print the banner, read the file, enter split_statements
ReadFile ==
    /\ pc = "start"
    /\ file_state = "ok"
    /\ out' = Append(out, Line("banner", 0, 0, <<>>))
    /\ sql_content' = file_text
    /\ scan' = scan_init
    /\ pc' = "scan"
    /\ UNCHANGED <<outer_vars, file_text, splits, raw_statements, k, statements, clients,
                   i, calls, exit_status>>

\* one iteration of the while loop of split_statements
ScanStep ==
    /\ pc = "scan"
    /\ scan.i < Len(sql_content)
    /\ scan' = scan_step(sql_content, scan)
    /\ splits' = IF is_split_step(sql_content, scan)
                 THEN splits \cup {scan.i} ELSE splits
    /\ UNCHANGED <<outer_vars, file_text, pc, sql_content, raw_statements, k, statements,
                   clients, i, calls, out, exit_status>>

\* the loop has ended: emit the last statement and return
ScanFinish ==
    /\ pc = "scan"
    /\ scan.i >= Len(sql_content)
    /\ raw_statements' = scan_result(scan)
    /\ k' = 0
    /\ statements' = <<>>
    /\ pc' = "clean"
    /\ UNCHANGED <<outer_vars, file_text, sql_content, scan, splits, clients, i, calls,
                   out, exit_status>>

\* one iteration of the cleaning loop
CleanStep ==
    /\ pc = "clean"
    /\ k < Len(raw_statements)
    /\ LET cleaned == clean_statement(raw_statements[k + 1]) IN
       statements' = IF cleaned # <<>> THEN Append(statements, cleaned)
                     ELSE statements
    /\ k' = k + 1
    /\ UNCHANGED <<outer_vars, file_text, pc, sql_content, scan, splits, raw_statements,
                   clients, i, calls, out, exit_status>>

\* print the count, create the client, enter the execution loop
CleanDone ==
    /\ pc = "clean"
    /\ k >= Len(raw_statements)
    /\ out' = Append(out, Line("found", 0, Len(statements), <<>>))
    /\ clients' = clients + 1
    /\ i' = 1
    /\ pc' = "loop"
    /\ UNCHANGED <<outer_vars, file_text, sql_content, scan, splits, raw_statements, k,
                   statements, calls, exit_status>>

\* variant: the position of the progress line counts from 0
Submit_ZeroBased ==
    /\ pc = "loop"
    /\ i <= Len(statements)
    /\ out' = Append(out, Line("progress", i - 1, Len(statements),
                               preview_of(statements[i])))
    /\ calls' = Append(calls, [stmt |-> statements[i], status |-> "running"])
    /\ pc' = "query"
    /\ UNCHANGED <<outer_vars, file_text, sql_content, scan, splits, raw_statements, k,
                   statements, clients, i, exit_status>>

\* variant: the statement is submitted without its progress line
Submit_NoProgress ==
    /\ pc = "loop"
    /\ i <= Len(statements)
    /\ calls' = Append(calls, [stmt |-> statements[i], status |-> "running"])
    /\ pc' = "query"
    /\ UNCHANGED <<outer_vars, file_text, sql_content, scan, splits, raw_statements, k,
                   statements, clients, i, exit_status, out>>

\* variant: every statement is submitted through a client of its own
Submit_NewClient ==
    /\ pc = "loop"
    /\ i <= Len(statements)
    /\ out' = Append(out, Line("progress", i, Len(statements),
                               preview_of(statements[i])))
    /\ clients' = clients + 1
    /\ calls' = Append(calls, [stmt |-> statements[i], status |-> "running"])
    /\ pc' = "query"
    /\ UNCHANGED <<outer_vars, file_text, sql_content, scan, splits, raw_statements, k,
                   statements, i, exit_status>>

\* print the progress line and call client.query(stmt)
Submit ==
    /\ pc = "loop"
    /\ i <= Len(statements)
    /\ out' = Append(out, Line("progress", i, Len(statements),
                               preview_of(statements[i])))
    /\ calls' = Append(calls, [stmt |-> statements[i], status |-> "running"])
    /\ pc' = "query"
    /\ UNCHANGED <<outer_vars, file_text, sql_content, scan, splits, raw_statements, k,
                   statements, clients, i, exit_status>>

\* variant: the loop does not move on after a success
ExecSuccess_Retry ==
    /\ pc = "query"
    /\ calls' = [calls EXCEPT ![Len(calls)].status = "ok"]
    /\ out' = Append(out, Line("success", 0, 0, <<>>))
    /\ pc' = "loop"
    /\ UNCHANGED <<outer_vars, file_text, sql_content, scan, splits, raw_statements, k,
                   statements, clients, i, exit_status>>

\* query_job.result() returns
ExecSuccess ==
    /\ pc = "query"
    /\ calls' = [calls EXCEPT ![Len(calls)].status = "ok"]
    /\ out' = Append(out, Line("success", 0, 0, <<>>))
    /\ i' = i + 1
    /\ pc' = "loop"
    /\ UNCHANGED <<outer_vars, file_text, sql_content, scan, splits, raw_statements, k,
                   statements, clients, exit_status>>

\* variant: the failure is reported and the loop goes on
ExecFailure_Continue ==
    /\ pc = "query"
    /\ calls' = [calls EXCEPT ![Len(calls)].status = "error"]
    /\ out' = out \o <<Line("failed", 0, 0, <<>>),
                       Line("error", 0, 0, <<>>),
                       Line("full_header", 0, 0, <<>>),
                       Line("separator", 0, 0, <<>>),
                       Line("statement", 0, 0, statements[i]),
                       Line("separator", 0, 0, <<>>)>>
    /\ i' = i + 1
    /\ pc' = "loop"
    /\ UNCHANGED <<outer_vars, file_text, sql_content, scan, splits, raw_statements, k,
                   statements, clients, exit_status>>

\* variant: the report shows the preview instead of the statement
ExecFailure_PrintsPreview ==
    /\ pc = "query"
    /\ calls' = [calls EXCEPT ![Len(calls)].status = "error"]
    /\ out' = out \o <<Line("failed", 0, 0, <<>>),
                       Line("error", 0, 0, <<>>),
                       Line("full_header", 0, 0, <<>>),
                       Line("separator", 0, 0, <<>>),
                       Line("statement", 0, 0, preview_of(statements[i])),
                       Line("separator", 0, 0, <<>>)>>
    /\ exit_status' = 1
    /\ pc' = "failed"
    /\ UNCHANGED <<outer_vars, file_text, sql_content, scan, splits, raw_statements, k,
                   statements, clients, i>>

\* variant: a failed statement is tried again
ExecFailure_Retry ==
    /\ pc = "query"
    /\ calls' = [calls EXCEPT ![Len(calls)].status = "error"]
    /\ out' = Append(out, Line("failed", 0, 0, <<>>))
    /\ pc' = "loop"
    /\ UNCHANGED <<outer_vars, file_text, sql_content, scan, splits, raw_statements, k,
                   statements, clients, i, exit_status>>

\* client.query or query_job.result() raises: report and sys.exit(1)
ExecFailure ==
    /\ pc = "query"
    /\ calls' = [calls EXCEPT ![Len(calls)].status = "error"]
    /\ out' = out \o <<Line("failed", 0, 0, <<>>),
                       Line("error", 0, 0, <<>>),
                       Line("full_header", 0, 0, <<>>),
                       Line("separator", 0, 0, <<>>),
                       Line("statement", 0, 0, statements[i]),
                       Line("separator", 0, 0, <<>>)>>
    /\ exit_status' = 1
    /\ pc' = "failed"
    /\ UNCHANGED <<outer_vars, file_text, sql_content, scan, splits, raw_statements, k,
                   statements, clients, i>>

\* variant: the loop ends one statement early
Finish_Early ==
    /\ pc = "loop"
    /\ i >= Len(statements)
    /\ out' = Append(out, Line("summary", 0, Len(statements), <<>>))
    /\ exit_status' = 0
    /\ pc' = "done"
    /\ UNCHANGED <<outer_vars, file_text, sql_content, scan, splits, raw_statements, k,
                   statements, clients, i, calls>>

\* the loop is exhausted: print the summary and return
Finish ==
    /\ pc = "loop"
    /\ i > Len(statements)
    /\ out' = Append(out, Line("summary", 0, Len(statements), <<>>))
    /\ exit_status' = 0
    /\ pc' = "done"
    /\ UNCHANGED <<outer_vars, file_text, sql_content, scan, splits, raw_statements, k,
                   statements, clients, i, calls>>

Next ==
    \/ ReadFile
    \/ ScanStep
    \/ ScanFinish
    \/ CleanStep
    \/ CleanDone
    \/ Submit
    \/ ExecSuccess
    \/ ExecFailure
    \/ Finish

Spec == Init /\ [][Next]_vars

(***************************************************************************)
(* split_statements and the cleaning loop as functions of their input.     *)
(***************************************************************************)
RECURSIVE run_scan(_, _)
run_scan(s, st) ==
    IF st.i < Len(s) THEN run_scan(s, scan_step(s, st)) ELSE scan_result(st)

split_statements(s) == run_scan(s, scan_init)

\* the cursor positions at which the scan of s from frame st splits
RECURSIVE scan_splits(_, _)
scan_splits(s, st) ==
    IF st.i >= Len(s) THEN {}
    ELSE (IF is_split_step(s, st) THEN {st.i} ELSE {})
         \cup scan_splits(s, scan_step(s, st))

\* the cursor positions at which split_statements(s) splits
split_points(s) == scan_splits(s, scan_init)

RECURSIVE clean_all(_)
clean_all(raw) ==
    IF raw = <<>> THEN <<>>
    ELSE LET cleaned == clean_statement(Head(raw)) IN
         (IF cleaned # <<>> THEN <<cleaned>> ELSE <<>>) \o clean_all(Tail(raw))

(***************************************************************************)
(* main: the process from its start.  An environment variable is <<>> when *)
(* unset and <<value>> when set.                                           *)
(***************************************************************************)
MaxArgv == 3

MaxMainLen == 2

EnvValues == {<<>>, <<"">>, <<"some-value">>}

MainDocs == {d \in Docs : Len(d) <= MaxMainLen} \cup ExampleDocs

InitMain ==
    /\ file_text \in MainDocs
    /\ pc = "main"
    /\ sql_content = <<>>
    /\ scan = scan_init
    /\ splits = {}
    /\ raw_statements = <<>>
    /\ k = 0
    /\ statements = <<>>
    /\ clients = 0
    /\ i = 0
    /\ calls = <<>>
    /\ out = <<>>
    /\ exit_status = 0
    /\ argv_len \in 1..MaxArgv
    /\ file_state \in {"ok", "missing", "unreadable"}
    /\ env_project \in EnvValues
    /\ env_credentials \in EnvValues
    /\ project_id = ""
    /\ history = <<>>
    /\ NoOtherScript

run_vars ==
    <<file_text, sql_content, scan, splits, raw_statements, k, statements,
      clients, i, calls>>

\* len(sys.argv) != 2: print the usage and sys.exit(1)
MainUsage ==
    /\ pc = "main"
    /\ argv_len # 2
    /\ out' = out \o <<Line("usage", 0, 0, <<>>),
                       Line("usage_example", 0, 0, <<>>)>>
    /\ exit_status' = 1
    /\ pc' = "usage_exit"
    /\ UNCHANGED <<outer_vars, run_vars>>

\* not os.path.exists(filepath): print the error and sys.exit(1)
MainNotFound ==
    /\ pc = "main"
    /\ argv_len = 2
    /\ file_state = "missing"
    /\ out' = Append(out, Line("not_found", 0, 0, <<>>))
    /\ exit_status' = 1
    /\ pc' = "not_found_exit"
    /\ UNCHANGED <<outer_vars, run_vars>>

\* variant: more than one argument is accepted
MainConfigure_ExtraArgs ==
    /\ pc = "main"
    /\ argv_len >= 2
    /\ file_state # "missing"
    /\ project_id' = IF env_project = <<>> THEN DefaultProject
                     ELSE env_project[1]
    /\ out' = IF env_credentials \in {<<>>, <<"">>}
              THEN out \o <<Line("warning", 0, 0, <<>>),
                             Line("warning_default", 0, 0, <<>>)>>
              ELSE out
    /\ pc' = "start"
    /\ UNCHANGED <<run_vars, exit_status, argv_len, file_state, env_project,
                   env_credentials, history, other_script_vars>>

\* variant: missing credentials end the process
MainConfigure_CredsFatal ==
    /\ pc = "main"
    /\ argv_len = 2
    /\ file_state # "missing"
    /\ project_id' = IF env_project = <<>> THEN DefaultProject
                     ELSE env_project[1]
    /\ out' = IF env_credentials \in {<<>>, <<"">>}
              THEN out \o <<Line("warning", 0, 0, <<>>),
                             Line("warning_default", 0, 0, <<>>)>>
              ELSE out
    /\ pc' = IF env_credentials \in {<<>>, <<"">>} THEN "usage_exit"
             ELSE "start"
    /\ exit_status' = IF env_credentials \in {<<>>, <<"">>} THEN 1 ELSE 0
    /\ UNCHANGED <<run_vars, argv_len, file_state, env_project,
                   env_credentials, history, other_script_vars>>

\* the arguments are accepted: read the configuration, call run_sql_file
MainConfigure ==
    /\ pc = "main"
    /\ argv_len = 2
    /\ file_state # "missing"
    /\ project_id' = IF env_project = <<>> THEN DefaultProject
                     ELSE env_project[1]
    /\ out' = IF env_credentials \in {<<>>, <<"">>}
              THEN out \o <<Line("warning", 0, 0, <<>>),
                             Line("warning_default", 0, 0, <<>>)>>
              ELSE out
    /\ pc' = "start"
    /\ UNCHANGED <<run_vars, exit_status, argv_len, file_state, env_project,
                   env_credentials, history, other_script_vars>>

\* variant: a file that cannot be read counts as empty
ReadFileFails_Empty ==
    /\ pc = "start"
    /\ file_state = "unreadable"
    /\ out' = Append(out, Line("banner", 0, 0, <<>>))
    /\ sql_content' = <<>>
    /\ scan' = scan_init
    /\ pc' = "scan"
    /\ UNCHANGED <<outer_vars, file_text, splits, raw_statements, k,
                   statements, clients, i, calls, exit_status>>

\* open(filepath) raises after the banner: the exception ends the process
ReadFileFails ==
    /\ pc = "start"
    /\ file_state = "unreadable"
    /\ out' = Append(out, Line("banner", 0, 0, <<>>))
    /\ exit_status' = 1
    /\ pc' = "crashed"
    /\ UNCHANGED <<outer_vars, run_vars>>

NextMain ==
    \/ MainUsage
    \/ MainNotFound
    \/ MainConfigure
    \/ ReadFileFails
    \/ Next

SpecMain == InitMain /\ [][NextMain]_vars

(***************************************************************************)
(* split_statements called on its own, several times in one process.       *)
(***************************************************************************)
MaxCalls == 3

PurityDocs ==
    {<<>>, <<"a">>, <<"a", ";">>, <<"'", ";", "'">>, <<"'", ";", "a">>,
     DocThree}

InitPurity ==
    /\ file_text = <<>>
    /\ pc = "idle"
    /\ sql_content = <<>>
    /\ scan = scan_init
    /\ splits = {}
    /\ raw_statements = <<>>
    /\ k = 0
    /\ statements = <<>>
    /\ clients = 0
    /\ i = 0
    /\ calls = <<>>
    /\ out = <<>>
    /\ exit_status = 0
    /\ argv_len = 2
    /\ file_state = "ok"
    /\ env_project = <<>>
    /\ env_credentials = <<>>
    /\ project_id = DefaultProject
    /\ history = <<>>
    /\ NoOtherScript

\* variant: the list of statements outlives the call
SplitCall_SharedList ==
    /\ pc = "idle"
    /\ Len(history) < MaxCalls
    /\ \E d \in PurityDocs : sql_content' = d
    /\ scan' = [scan_init EXCEPT !.statements = raw_statements]
    /\ splits' = {}
    /\ pc' = "scan"
    /\ UNCHANGED <<file_text, raw_statements, k, statements, clients, i,
                   calls, out, exit_status, outer_vars>>

\* a call: the locals are initialised
SplitCall ==
    /\ pc = "idle"
    /\ Len(history) < MaxCalls
    /\ \E d \in PurityDocs : sql_content' = d
    /\ scan' = scan_init
    /\ splits' = {}
    /\ pc' = "scan"
    /\ UNCHANGED <<file_text, raw_statements, k, statements, clients, i,
                   calls, out, exit_status, outer_vars>>

\* the loop has ended: emit the last statement and return to the caller
SplitReturn ==
    /\ pc = "scan"
    /\ scan.i >= Len(sql_content)
    /\ raw_statements' = scan_result(scan)
    /\ history' = Append(history, [input |-> sql_content,
                                   output |-> scan_result(scan)])
    /\ pc' = "idle"
    /\ UNCHANGED <<file_text, sql_content, scan, splits, k, statements,
                   clients, i, calls, out, exit_status, argv_len, file_state,
                   env_project, env_credentials, project_id,
                   other_script_vars>>

NextPurity ==
    \/ SplitCall
    \/ ScanStep
    \/ SplitReturn

SpecPurity == InitPurity /\ [][NextPurity]_vars

(***************************************************************************)
(* The run under the assumption that the process keeps taking its steps    *)
(* and that every call to the service returns.                             *)
(***************************************************************************)
ProgramStep ==
    \/ ReadFile
    \/ ScanStep
    \/ ScanFinish
    \/ CleanStep
    \/ CleanDone
    \/ Submit
    \/ Finish

ServiceReturns == ExecSuccess \/ ExecFailure

MaxLiveLen == 2

LiveDocs == {d \in BoundedDocs : Len(d) <= MaxLiveLen} \cup {DocThree, DocMixed}

InitLive == Init /\ file_text \in LiveDocs

SpecLive ==
    InitLive /\ [][Next]_vars /\ WF_vars(ProgramStep) /\ WF_vars(ServiceReturns)

(***************************************************************************)
(* The other scripts: extraction/extract_metadata.py,                      *)
(* sql/create_scheduled_query.py and sql/stream_insert.py, each from its   *)
(* start to its end.  A call to the service returns or raises, at the      *)
(* choice of the service.  step is "ended" when the script has run its     *)
(* last line and "raised" when an exception has left it.                   *)
(***************************************************************************)
DATASETS ==
    <<"raw_ecommerce", "staging_ecommerce", "analytics_ecommerce",
      "reporting_ecommerce">>

OtherScripts == {"extract_metadata", "create_scheduled_query", "stream_insert"}

\* a line printed by one of the other scripts
Entry(kind, about) == [kind |-> kind, about |-> about]

\* the state of run_sql.py, which the other scripts do not have
runner_state ==
    <<run_vars, pc, out, exit_status, argv_len, file_state, env_project,
      env_credentials, project_id, history>>

InitScripts ==
    /\ file_text = <<>>
    /\ pc = "idle"
    /\ sql_content = <<>>
    /\ scan = scan_init
    /\ splits = {}
    /\ raw_statements = <<>>
    /\ k = 0
    /\ statements = <<>>
    /\ clients = 0
    /\ i = 0
    /\ calls = <<>>
    /\ out = <<>>
    /\ exit_status = 0
    /\ argv_len = 1
    /\ file_state = "ok"
    /\ env_project = <<>>
    /\ env_credentials = <<>>
    /\ project_id = DefaultProject
    /\ history = <<>>
    /\ script \in OtherScripts
    /\ step = "start"
    /\ fetched = 0
    /\ datasets = <<>>
    /\ log = <<>>

\* extract_metadata.main: the banner, then extract_dataset_metadata begins
ExtractStart ==
    /\ script = "extract_metadata"
    /\ step = "start"
    /\ log' = Append(log, Entry("banner", ""))
    /\ fetched' = 0
    /\ datasets' = <<>>
    /\ step' = "datasets"
    /\ UNCHANGED <<script, runner_state>>

\* client.get_dataset returns: the entry of the dataset is appended
GetDatasetOk ==
    /\ script = "extract_metadata"
    /\ step = "datasets"
    /\ fetched < Len(DATASETS)
    /\ datasets' = Append(datasets, DATASETS[fetched + 1])
    /\ fetched' = fetched + 1
    /\ UNCHANGED <<script, step, log, runner_state>>

\* variant: the exception of client.get_dataset leaves the script
GetDatasetFails_Propagates ==
    /\ script = "extract_metadata"
    /\ step = "datasets"
    /\ fetched < Len(DATASETS)
    /\ step' = "raised"
    /\ UNCHANGED <<script, fetched, datasets, log, runner_state>>

\* client.get_dataset raises: the warning is printed, the loop goes on
GetDatasetFails ==
    /\ script = "extract_metadata"
    /\ step = "datasets"
    /\ fetched < Len(DATASETS)
    /\ log' = Append(log, Entry("warning", DATASETS[fetched + 1]))
    /\ fetched' = fetched + 1
    /\ UNCHANGED <<script, step, datasets, runner_state>>

\* extract_dataset_metadata returns; main prints the count
DatasetsDone ==
    /\ script = "extract_metadata"
    /\ step = "datasets"
    /\ fetched >= Len(DATASETS)
    /\ log' = Append(log, Entry("datasets_extracted", ""))
    /\ step' = "rest"
    /\ UNCHANGED <<script, fetched, datasets, runner_state>>

\* the other extract_ functions: every call to the service is in a try
\* whose handler prints or passes and does not raise
ExtractRest ==
    /\ script = "extract_metadata"
    /\ step = "rest"
    /\ \E failed \in BOOLEAN :
          log' = IF failed THEN Append(log, Entry("warning", "rest"))
                 ELSE log
    /\ step' = "report"
    /\ UNCHANGED <<script, fetched, datasets, runner_state>>

\* main writes bigquery_metadata.json and prints the summary
WriteReport ==
    /\ script = "extract_metadata"
    /\ step = "report"
    /\ log' = Append(log, Entry("summary", ""))
    /\ step' = "ended"
    /\ UNCHANGED <<script, fetched, datasets, runner_state>>

\* create_scheduled_query.py: the header, then list_scheduled_queries
CsqStart ==
    /\ script = "create_scheduled_query"
    /\ step = "start"
    /\ log' = Append(log, Entry("banner", ""))
    /\ step' = "list"
    /\ UNCHANGED <<script, fetched, datasets, runner_state>>

\* client.list_transfer_configs returns: the configurations are printed
ListOk ==
    /\ script = "create_scheduled_query"
    /\ step = "list"
    /\ log' = log \o <<Entry("listed", ""), Entry("creating", "")>>
    /\ step' = "create"
    /\ UNCHANGED <<script, fetched, datasets, runner_state>>

\* client.list_transfer_configs raises: the error is printed
ListFails ==
    /\ script = "create_scheduled_query"
    /\ step = "list"
    /\ log' = log \o <<Entry("error", "list"), Entry("creating", "")>>
    /\ step' = "create"
    /\ UNCHANGED <<script, fetched, datasets, runner_state>>

\* client.create_transfer_config returns; the script prints its last line
CreateOk ==
    /\ script = "create_scheduled_query"
    /\ step = "create"
    /\ log' = log \o <<Entry("created", ""), Entry("done", "")>>
    /\ step' = "ended"
    /\ UNCHANGED <<script, fetched, datasets, runner_state>>

\* client.create_transfer_config raises: the error is printed and raised
CreateFails ==
    /\ script = "create_scheduled_query"
    /\ step = "create"
    /\ log' = Append(log, Entry("error", "create"))
    /\ step' = "raised"
    /\ UNCHANGED <<script, fetched, datasets, runner_state>>

\* stream_insert.py: the header, then stream_insert_shipping_events
StreamStart ==
    /\ script = "stream_insert"
    /\ step = "start"
    /\ log' = Append(log, Entry("banner", ""))
    /\ step' = "shipping_events"
    /\ UNCHANGED <<script, fetched, datasets, runner_state>>

\* client.insert_rows_json returns, with the errors of the rows or none
InsertReturns ==
    /\ script = "stream_insert"
    /\ step \in {"shipping_events", "payments"}
    /\ \E errors \in BOOLEAN :
          log' = Append(log, Entry(IF errors THEN "error" ELSE "inserted",
                                   step))
    /\ step' = IF step = "shipping_events" THEN "payments" ELSE "buffer"
    /\ UNCHANGED <<script, fetched, datasets, runner_state>>

\* client.insert_rows_json raises: nothing catches the exception
InsertRaises ==
    /\ script = "stream_insert"
    /\ step \in {"shipping_events", "payments"}
    /\ step' = "raised"
    /\ UNCHANGED <<script, fetched, datasets, log, runner_state>>

\* client.get_table returns; the script prints its last line
CheckBufferOk ==
    /\ script = "stream_insert"
    /\ step = "buffer"
    /\ \E present \in BOOLEAN :
          log' = log \o <<Entry(IF present THEN "buffer" ELSE "no_buffer", ""),
                          Entry("done", "")>>
    /\ step' = "ended"
    /\ UNCHANGED <<script, fetched, datasets, runner_state>>

\* client.get_table raises: nothing catches the exception
CheckBufferRaises ==
    /\ script = "stream_insert"
    /\ step = "buffer"
    /\ step' = "raised"
    /\ UNCHANGED <<script, fetched, datasets, log, runner_state>>

NextScripts ==
    \/ ExtractStart
    \/ GetDatasetOk
    \/ GetDatasetFails
    \/ DatasetsDone
    \/ ExtractRest
    \/ WriteReport
    \/ CsqStart
    \/ ListOk
    \/ ListFails
    \/ CreateOk
    \/ CreateFails
    \/ StreamStart
    \/ InsertReturns
    \/ InsertRaises
    \/ CheckBufferOk
    \/ CheckBufferRaises

\* a script keeps running until it has ended or an exception has left it
SpecScripts == InitScripts /\ [][NextScripts]_vars /\ WF_vars(NextScripts)

TypeOK ==
    /\ pc \in {"start", "scan", "clean", "loop", "query", "done", "failed"}
    /\ scan.i \in 0..Len(sql_content)
    /\ exit_status \in {0, 1}

(***************************************************************************)
(* Helpers of the properties.                                              *)
(***************************************************************************)
Terminal == pc \in {"done", "failed"}

Scanned == pc \notin {"start", "scan"}

Cleaned == pc \in {"loop", "query", "done", "failed"}

ErrorCalls == {j \in 1..Len(calls) : calls[j].status = "error"}

RunningCalls == {j \in 1..Len(calls) : calls[j].status = "running"}

SummaryLines == {j \in 1..Len(out) : out[j].kind = "summary"}

(***************************************************************************)
(* C1  Fail-fast.  When the execution of statement k fails, the service    *)
(* has been sent exactly statements 1..k, the first k-1 succeeded, the run *)
(* is in the terminal failed state with exit status 1, and no step of the  *)
(* run follows: a recorded failure always means the run has stopped.       *)
(***************************************************************************)
C1_FailFastState ==
    /\ ErrorCalls # {} => pc = "failed"
    /\ pc = "failed" =>
          /\ exit_status = 1
          /\ Len(calls) = i
          /\ i <= Len(statements)
          /\ \A j \in 1..i : calls[j].stmt = statements[j]
          /\ \A j \in 1..(i - 1) : calls[j].status = "ok"
          /\ calls[i].status = "error"

C1_FailFast ==
    /\ []C1_FailFastState
    /\ [][pc = "failed" => UNCHANGED vars]_vars

C1_Witness ==
    /\ pc = "failed"
    /\ Len(statements) = 3
    /\ i = 2
    /\ Len(calls) = 2

(***************************************************************************)
(* C2  Sequential, in-order, at-most-once execution.  The calls received   *)
(* by the service are, position by position, a prefix of the cleaned       *)
(* statements; every call but the last has succeeded; at most one call is  *)
(* running; the number of calls follows the loop position, so no           *)
(* statement is sent twice.                                                *)
(***************************************************************************)
C2_Sequential ==
    /\ Len(calls) <= Len(statements)
    /\ \A j \in 1..Len(calls) : calls[j].stmt = statements[j]
    /\ \A j \in 1..(Len(calls) - 1) : calls[j].status = "ok"
    /\ Cardinality(RunningCalls) <= 1
    /\ RunningCalls # {} <=> pc = "query"
    /\ pc = "query" => Len(calls) = i
    /\ pc = "loop" => Len(calls) = i - 1

C2_Witness ==
    /\ pc = "query"
    /\ Len(calls) = 2
    /\ calls[1].status = "ok"
    /\ calls[2].status = "running"

(***************************************************************************)
(* C9  Overall success.  Between two executions every call made so far has *)
(* succeeded and the loop position is one past their number; a run that    *)
(* stops without a failed call stops in the all-succeeded state after      *)
(* exactly N executions, all successful,                                   *)
(* with the summary line stating N printed last and exit status 0 (N = 0   *)
(* included); the summary line is printed only there, never in a run with  *)
(* a failed call, and exit status 1 only comes with a failed call.         *)
(***************************************************************************)
C9_OverallSuccess ==
    /\ pc = "loop" =>
          /\ i \in 1..(Len(statements) + 1)
          /\ Len(calls) = i - 1
          /\ \A j \in 1..Len(calls) : calls[j].status = "ok"
    /\ Terminal /\ ErrorCalls = {} => pc = "done"
    /\ pc = "done" =>
          /\ Len(calls) = Len(statements)
          /\ \A j \in 1..Len(calls) : calls[j].status = "ok"
          /\ out[Len(out)] = Line("summary", 0, Len(statements), <<>>)
          /\ Cardinality(SummaryLines) = 1
          /\ exit_status = 0
    /\ SummaryLines # {} => pc = "done" /\ ErrorCalls = {}
    /\ exit_status = 1 => ErrorCalls # {}

C9_Witness ==
    /\ pc = "done"
    /\ raw_statements # <<>>
    /\ Len(statements) = 0
    /\ calls = <<>>


(***************************************************************************)
(* Helpers of the splitter properties.  A split position is the 0-based    *)
(* index of a semicolon at which the scanner split; the segments of a text *)
(* are the pieces between consecutive split positions.                     *)
(***************************************************************************)
RECURSIVE segments_from(_, _, _)
segments_from(s, S, from) ==
    LET ahead == {p \in S : p + 1 >= from} IN
    IF ahead = {} THEN <<SubSeq(s, from, Len(s))>>
    ELSE LET p == CHOOSE q \in ahead : \A r \in ahead : q <= r
         IN  <<SubSeq(s, from, p)>> \o segments_from(s, S, p + 2)

Segments == segments_from(sql_content, splits, 1)

NonEmpty(s) == s # <<>>

RECURSIVE Flatten(_)
Flatten(ss) == IF ss = <<>> THEN <<>> ELSE Head(ss) \o Flatten(Tail(ss))

RECURSIVE SumLen(_)
SumLen(ss) == IF ss = <<>> THEN 0 ELSE Len(Head(ss)) + SumLen(Tail(ss))

Stripped(ss) == [j \in 1..Len(ss) |-> strip(ss[j])]

Trimmed(s) == s # <<>> /\ ~IsSpace(s[1]) /\ ~IsSpace(s[Len(s)])

InScanLoop == pc = "scan" /\ scan.i < Len(sql_content)

(***************************************************************************)
(* C3  Boundary correctness.  An iteration of the scan loop that reads a   *)
(* semicolon while a quote flag is set does not split: the statements and  *)
(* the split positions are unchanged and the semicolon is appended to the  *)
(* current statement.  The document  SELECT ';' AS x; SELECT 2;  splits    *)
(* into exactly  SELECT ';' AS x  and  SELECT 2.                           *)
(***************************************************************************)
C3_QuotedSemicolonStep ==
    (/\ InScanLoop
     /\ sql_content[scan.i + 1] = ";"
     /\ scan.in_single_quote \/ scan.in_double_quote)
    => /\ scan'.statements = scan.statements
       /\ scan'.current = Append(scan.current, ";")
       /\ splits' = splits

C3_BoundaryExample ==
    Scanned /\ sql_content = DocBoundary
    => raw_statements = <<StmtBoundary1, StmtSelect2>>

C3_Boundary ==
    /\ [][C3_QuotedSemicolonStep]_vars
    /\ []C3_BoundaryExample

C3_Witness ==
    /\ pc = "scan"
    /\ sql_content = DocBoundary
    /\ scan.i = 9
    /\ scan.in_single_quote
    /\ scan.current[Len(scan.current)] = ";"
    /\ scan.statements = <<>>
    /\ splits = {}

(***************************************************************************)
(* C4  Escape correctness.  An iteration of the scan loop that reads a     *)
(* backslash followed by at least one more character appends the two       *)
(* characters, advances the cursor by two and changes nothing else, the    *)
(* quote flags in particular.  The document  SELECT 'a\'b';  splits into   *)
(* exactly  SELECT 'a\'b'.                                                 *)
(***************************************************************************)
C4_EscapeStep ==
    (/\ InScanLoop
     /\ sql_content[scan.i + 1] = "\\"
     /\ scan.i + 1 < Len(sql_content))
    => /\ scan' = [scan EXCEPT
                     !.current = scan.current
                                 \o <<"\\", sql_content[scan.i + 2]>>,
                     !.i = scan.i + 2]
       /\ splits' = splits

C4_EscapeExample ==
    Scanned /\ sql_content = DocEscape => raw_statements = <<StmtEscape>>

C4_Escape ==
    /\ [][C4_EscapeStep]_vars
    /\ []C4_EscapeExample

C4_Witness ==
    /\ pc = "scan"
    /\ sql_content = DocEscape
    /\ scan.i = 11
    /\ scan.in_single_quote
    /\ SubSeq(scan.current, 10, 11) = <<"\\", "'">>

(***************************************************************************)
(* C5  No trailing semicolon needed.  When the scan has ended, the buffer  *)
(* left over is trimmed and, if non-empty, is the last statement returned  *)
(* (otherwise nothing is added); the text after the last split position,   *)
(* trimmed, is the last statement whenever it is non-empty.  The document  *)
(* SELECT 1; SELECT 2  splits into  SELECT 1  and  SELECT 2.               *)
(***************************************************************************)
TailText ==
    LET from == IF splits = {} THEN 1
                ELSE (CHOOSE p \in splits : \A r \in splits : r <= p) + 2
    IN  strip(SubSeq(sql_content, from, Len(sql_content)))

C5_NoTrailingSemicolon ==
    Scanned =>
       /\ IF strip(scan.current) # <<>>
          THEN raw_statements = Append(scan.statements, strip(scan.current))
          ELSE raw_statements = scan.statements
       /\ TailText # <<>> =>
             /\ raw_statements # <<>>
             /\ raw_statements[Len(raw_statements)] = TailText
       /\ sql_content = DocNoTrailing =>
             raw_statements = <<StmtSelect1, StmtSelect2>>

C5_Witness ==
    /\ pc = "clean"
    /\ k = 0
    /\ sql_content = DocNoTrailing
    /\ raw_statements = <<StmtSelect1, StmtSelect2>>
    /\ splits = {8}

(***************************************************************************)
(* C6  Every statement of the splitter, while scanning and when returned,  *)
(* is non-empty and starts and ends with a non-whitespace character; the   *)
(* statements returned are, in order, the trimmed segments of the input    *)
(* that are not empty, so an empty or whitespace-only segment gives none.  *)
(***************************************************************************)
C6_TrimmedInOrder ==
    /\ \A j \in 1..Len(scan.statements) : Trimmed(scan.statements[j])
    /\ \A j \in 1..Len(raw_statements) : Trimmed(raw_statements[j])
    /\ Scanned => raw_statements = SelectSeq(Stripped(Segments), NonEmpty)

C6_Witness ==
    /\ pc = "clean"
    /\ k = 0
    /\ sql_content = DocMixed
    /\ Len(Segments) = 5
    /\ Len(raw_statements) = 4

(***************************************************************************)
(* C7  Quote exclusivity.  In every state of the scan the two quote flags  *)
(* are not both true.                                                      *)
(***************************************************************************)
C7_QuoteExclusivity == ~(scan.in_single_quote /\ scan.in_double_quote)

C7_Witness ==
    /\ pc = "scan"
    /\ sql_content = <<"'", "\"">>
    /\ scan.i = 2
    /\ scan.in_single_quote
    /\ ~scan.in_double_quote


(***************************************************************************)
(* C8  Comment-only drop.  clean_statement gives the empty string for a    *)
(* text all of whose lines are blank or, once trimmed, start with "--"     *)
(* (checked on the file text taken as a raw statement and on every raw     *)
(* statement of the run); a text of two lines, one comment and one SQL,    *)
(* cleans to the SQL line; the cleaned statements are as many as the raw   *)
(* statements that are not comment-only, and no comment-only text is among *)
(* them or among the calls to the service.                                 *)
(***************************************************************************)
IsCommentLine(line) == startswith_comment(strip(line))

IsBlankLine(line) == strip(line) = <<>>

CommentOnly(r) ==
    \A j \in 1..Len(split_lines(r)) :
        IsBlankLine(split_lines(r)[j]) \/ IsCommentLine(split_lines(r)[j])

CommentAndSql(r, c, q) ==
    /\ Len(split_lines(r)) = 2
    /\ {c, q} = {1, 2}
    /\ IsCommentLine(split_lines(r)[c])
    /\ ~IsCommentLine(split_lines(r)[q])
    /\ ~IsBlankLine(split_lines(r)[q])

CleanDrops(r) ==
    /\ CommentOnly(r) => clean_statement(r) = <<>>
    /\ \A c, q \in 1..2 :
          CommentAndSql(r, c, q) =>
             clean_statement(r) = strip(split_lines(r)[q])

C8_CommentOnlyDrop ==
    /\ CleanDrops(file_text)
    /\ \A j \in 1..Len(raw_statements) : CleanDrops(raw_statements[j])
    /\ \A j \in 1..Len(statements) : ~CommentOnly(statements[j])
    /\ \A j \in 1..Len(calls) : ~CommentOnly(calls[j].stmt)
    /\ Cleaned =>
          Len(statements) =
             Cardinality({j \in 1..Len(raw_statements) :
                             ~CommentOnly(raw_statements[j])})
    /\ Cleaned /\ sql_content = DocCommentSql => statements = <<StmtSelect1>>

C8_Witness ==
    /\ pc = "loop"
    /\ file_text = DocCommentOnly
    /\ Len(raw_statements) = 1
    /\ CommentOnly(raw_statements[1])
    /\ statements = <<>>

(***************************************************************************)
(* C10  Lossless partition, as stated: the statements returned, put end to *)
(* end, are the input without its separating semicolons, so that no        *)
(* character is discarded or duplicated.                                   *)
(***************************************************************************)
C10_LosslessPartition ==
    Scanned =>
       /\ Flatten(raw_statements) = Flatten(Segments)
       /\ Len(sql_content) = SumLen(raw_statements) + Cardinality(splits)

(***************************************************************************)
(* C10  as amended: every split position holds a semicolon, the input is   *)
(* its segments plus one separator per split position, and the statements  *)
(* returned, put end to end, are the segments each trimmed of its leading  *)
(* and trailing whitespace: only that whitespace is discarded and nothing  *)
(* is duplicated.                                                          *)
(***************************************************************************)
C10_PartitionUpToTrim ==
    Scanned =>
       /\ \A p \in splits : sql_content[p + 1] = ";"
       /\ Len(sql_content) = SumLen(Segments) + Cardinality(splits)
       /\ Flatten(raw_statements) = Flatten(Stripped(Segments))
       /\ SumLen(raw_statements) = SumLen(Stripped(Segments))

C10_Witness ==
    /\ pc = "clean"
    /\ k = 0
    /\ sql_content = <<" ", "a", ";", " ">>
    /\ splits = {2}
    /\ raw_statements = <<<<"a">>>>


(***************************************************************************)
(* Helpers of the ordinal and report properties.                           *)
(***************************************************************************)
IsProgress(line) == line.kind = "progress"

ProgressLines == SelectSeq(out, IsProgress)

IsKeptOrdinal(j) == clean_statement(raw_statements[j]) # <<>>

\* the ordinals, among the raw statements, of those that survive cleaning
KeptOrdinals ==
    SelectSeq([j \in 1..Len(raw_statements) |-> j], IsKeptOrdinal)

DroppedBefore(r) == {j \in 1..(r - 1) : ~IsKeptOrdinal(j)}

(***************************************************************************)
(* C11  Statement ordinals, as stated: the position shown in the progress  *)
(* line of a statement is the ordinal of its raw statement among the raw   *)
(* statements returned by the splitter, so that dropping a comment-only    *)
(* statement leaves the later positions as they were.                      *)
(***************************************************************************)
C11_RawOrdinals ==
    Cleaned =>
       \A j \in 1..Len(ProgressLines) :
          ProgressLines[j].pos = KeptOrdinals[j]

(***************************************************************************)
(* C11  as amended: the position shown for a statement is its ordinal      *)
(* among the cleaned statements, which are the cleaned raw statements that *)
(* are not empty, in the splitter's order; the positions run 1, 2, ...     *)
(* without gap, and each is the raw ordinal less the number of raw         *)
(* statements dropped before it.                                           *)
(***************************************************************************)
C11_CleanedOrdinals ==
    Cleaned =>
       /\ Len(statements) = Len(KeptOrdinals)
       /\ \A j \in 1..Len(statements) :
             statements[j] = clean_statement(raw_statements[KeptOrdinals[j]])
       /\ \A j \in 1..Len(ProgressLines) :
             /\ ProgressLines[j].pos = j
             /\ ProgressLines[j].pos =
                   KeptOrdinals[j] - Cardinality(DroppedBefore(KeptOrdinals[j]))
             /\ ProgressLines[j].total = Len(statements)

C11_Witness ==
    /\ pc = "query"
    /\ sql_content = <<"-", "-", ";", "a">>
    /\ KeptOrdinals = <<2>>
    /\ ProgressLines = <<Line("progress", 1, 1, <<"a">>)>>

(***************************************************************************)
(* C12  Cleaner content preservation, as stated: the result is the lines   *)
(* that do not start with "--" once trimmed, all of them, joined with      *)
(* newlines and trimmed as a whole, for every raw statement cleaned.       *)
(***************************************************************************)
NotCommentLine(line) == ~IsCommentLine(line)

SqlLine(line) == ~IsCommentLine(line) /\ ~IsBlankLine(line)

KeepsAllButComments(r) ==
    clean_statement(r) =
       strip(join(<<"\n">>, SelectSeq(split_lines(r), NotCommentLine)))

C12_OnlyCommentsRemoved ==
    \A j \in 1..k : KeepsAllButComments(raw_statements[j])

(***************************************************************************)
(* C12  as amended: the lines removed are those that are blank or start    *)
(* with "--" once trimmed.  The result has one line per remaining line, in *)
(* the same order, each with its text unchanged, except that the first     *)
(* loses its leading and the last its trailing whitespace; with no         *)
(* remaining line the result is empty.                                     *)
(***************************************************************************)
OuterTrim(lines, j) ==
    LET a == IF j = 1 THEN lstrip(lines[j]) ELSE lines[j]
    IN  IF j = Len(lines) THEN rstrip(a) ELSE a

KeepsSqlLines(r) ==
    LET kept == SelectSeq(split_lines(r), SqlLine)
        res == split_lines(clean_statement(r))
    IN  IF kept = <<>> THEN clean_statement(r) = <<>>
        ELSE /\ Len(res) = Len(kept)
             /\ \A j \in 1..Len(kept) : res[j] = OuterTrim(kept, j)

C12_SqlLinesPreserved ==
    /\ KeepsSqlLines(file_text)
    /\ \A j \in 1..Len(raw_statements) : KeepsSqlLines(raw_statements[j])
    /\ \A j \in 1..k : clean_statement(raw_statements[j]) # <<>> =>
          \E n \in 1..Len(statements) :
             KeepsSqlLines(raw_statements[j])
             /\ statements[n] = clean_statement(raw_statements[j])

C12_Witness ==
    /\ pc = "clean"
    /\ k = 1
    /\ raw_statements = << <<"a", "\n", "\n", "a">> >>
    /\ statements = << <<"a", "\n", "a">> >>

(***************************************************************************)
(* C13  Preview.  The text of every progress line is the statement with    *)
(* each whitespace run collapsed to one space, cut to its first PreviewLen *)
(* characters, followed by "..." exactly when the collapsed text is longer *)
(* than PreviewLen.                                                        *)
(***************************************************************************)
Collapsed(stmt) == join(<<" ">>, split_ws(stmt))

ExpectedPreview(stmt) ==
    IF Len(Collapsed(stmt)) > PreviewLen
    THEN SubSeq(Collapsed(stmt), 1, PreviewLen) \o <<".", ".", ".">>
    ELSE Collapsed(stmt)

C13_PreviewMarker ==
    \A j \in 1..Len(ProgressLines) :
       ProgressLines[j].text = ExpectedPreview(calls[j].stmt)

(***************************************************************************)
(* C14  Failure report.  In the failed state the last lines printed are,   *)
(* in this order, the failure marker, the error text, the heading of the   *)
(* statement, a separator, the complete text of the statement that failed  *)
(* and a second separator, right after the progress line of that           *)
(* statement; they are printed nowhere else, so all of them precede the    *)
(* exit with status 1.                                                     *)
(***************************************************************************)
ReportKinds ==
    <<"failed", "error", "full_header", "separator", "statement", "separator">>

C14_FailureReport ==
    /\ pc = "failed" =>
          /\ Len(out) >= 7
          /\ \A n \in 1..6 : out[Len(out) - 6 + n].kind = ReportKinds[n]
          /\ out[Len(out) - 1].text = statements[i]
          /\ out[Len(out) - 1].text = calls[Len(calls)].stmt
          /\ out[Len(out) - 6] =
                Line("progress", i, Len(statements), preview_of(statements[i]))
          /\ exit_status = 1
    /\ pc # "failed" =>
          \A n \in 1..Len(out) : out[n].kind \notin {"failed", "error", "statement"}

C14_Witness ==
    /\ pc = "failed"
    /\ statements[i] = <<"a", "\n", "a">>
    /\ preview_of(statements[i]) = <<"a", " ", "a">>
    /\ out[Len(out) - 1] = Line("statement", 0, 0, <<"a", "\n", "a">>)

(***************************************************************************)
(* C19  Inline comments pass through.  A line of a raw statement that is   *)
(* not blank, does not start with "--" once trimmed, and contains "--" or  *)
(* a block-comment delimiter, is a line of the cleaned statement, with the *)
(* same place among the lines kept and the same text, comment included,    *)
(* but for the outer trim of the whole result.                             *)
(***************************************************************************)
HasCommentText(line) ==
    \E p \in 1..(Len(line) - 1) :
       \/ line[p] = "-" /\ line[p + 1] = "-"
       \/ line[p] = "/" /\ line[p + 1] = "*"
       \/ line[p] = "*" /\ line[p + 1] = "/"

InlinePassThrough(r) ==
    LET kept == SelectSeq(split_lines(r), SqlLine)
        res == split_lines(clean_statement(r))
    IN  \A j \in 1..Len(kept) :
           HasCommentText(kept[j]) =>
              /\ j <= Len(res)
              /\ res[j] = OuterTrim(kept, j)
              /\ HasCommentText(res[j])

C19_InlineCommentsKept ==
    /\ InlinePassThrough(file_text)
    /\ \A j \in 1..Len(raw_statements) : InlinePassThrough(raw_statements[j])
    /\ Cleaned /\ sql_content = DocInline => statements = <<DocInline>>

C19_Witness ==
    /\ pc = "loop"
    /\ sql_content = DocInline
    /\ raw_statements = <<DocInline>>
    /\ statements = <<DocInline>>


(***************************************************************************)
(* Helpers of the properties of main.                                      *)
(***************************************************************************)
InRun == pc \notin {"main", "usage_exit", "not_found_exit"}

Untouched ==
    /\ sql_content = <<>>
    /\ scan = scan_init
    /\ raw_statements = <<>>
    /\ statements = <<>>
    /\ clients = 0
    /\ calls = <<>>

HasLine(kind) == \E n \in 1..Len(out) : out[n].kind = kind

(***************************************************************************)
(* C15  Usage error.  With an argument count other than one (len(sys.argv) *)
(* other than 2) the process is either at its start or has exited with     *)
(* status 1 after printing the two usage lines and nothing else; no file   *)
(* was read, no client created, no statement split, cleaned or submitted.  *)
(* The usage exit happens for no other reason.                             *)
(***************************************************************************)
C15_UsageError ==
    /\ argv_len # 2 =>
          /\ pc \in {"main", "usage_exit"}
          /\ Untouched
          /\ pc = "usage_exit" =>
                /\ exit_status = 1
                /\ out = <<Line("usage", 0, 0, <<>>),
                           Line("usage_example", 0, 0, <<>>)>>
    /\ pc = "usage_exit" => argv_len # 2

C15_Witness ==
    /\ pc = "usage_exit"
    /\ argv_len = 3
    /\ file_state = "ok"
    /\ file_text = DocThree
    /\ exit_status = 1

(***************************************************************************)
(* C16  File access error.  With one argument naming a missing file the    *)
(* process is either at its start or has exited with status 1 after        *)
(* printing the file-not-found line only, with no client created and       *)
(* nothing read, split or submitted.  A file that is missing or cannot be  *)
(* read never gives the summary line or the all-succeeded state, and once  *)
(* the process has stopped its exit status is 1.                           *)
(***************************************************************************)
C16_FileAccessError ==
    /\ argv_len = 2 /\ file_state = "missing" =>
          /\ pc \in {"main", "not_found_exit"}
          /\ Untouched
          /\ pc = "not_found_exit" =>
                /\ exit_status = 1
                /\ out = <<Line("not_found", 0, 0, <<>>)>>
    /\ pc = "not_found_exit" => file_state = "missing"
    /\ file_state # "ok" =>
          /\ pc # "done"
          /\ ~HasLine("summary")
          /\ clients = 0
          /\ calls = <<>>
          /\ pc \notin {"main", "start"} => exit_status = 1

C16_Witness ==
    /\ pc = "not_found_exit"
    /\ argv_len = 2
    /\ file_state = "missing"
    /\ file_text = DocThree
    /\ out = <<Line("not_found", 0, 0, <<>>)>>

(***************************************************************************)
(* C17  Configuration.  Once main has called run_sql_file, the project is  *)
(* the value of the project variable, or the default when it is unset; an  *)
(* unset credentials variable has printed the warning and the run goes on; *)
(* the process exits from main only for a wrong argument count or a        *)
(* missing file; the statements cleaned and submitted are those of the     *)
(* file text, whatever the two variables are.                              *)
(***************************************************************************)
C17_Configuration ==
    /\ InRun =>
          /\ project_id = IF env_project = <<>> THEN DefaultProject
                          ELSE env_project[1]
          /\ env_credentials = <<>> => HasLine("warning")
          /\ HasLine("warning") => env_credentials \in {<<>>, <<"">>}
          /\ argv_len = 2
          /\ file_state # "missing"
    /\ pc = "usage_exit" => argv_len # 2
    /\ pc = "not_found_exit" => argv_len = 2 /\ file_state = "missing"
    /\ Cleaned =>
          /\ statements = clean_all(split_statements(file_text))
          /\ \A j \in 1..Len(calls) : calls[j].stmt = statements[j]
    /\ pc = "done" => Len(calls) = Len(clean_all(split_statements(file_text)))

C17_Witness ==
    /\ pc = "done"
    /\ env_credentials = <<>>
    /\ env_project = <<>>
    /\ project_id = DefaultProject
    /\ HasLine("warning")
    /\ file_text = DocThree
    /\ Len(calls) = 3


(***************************************************************************)
(* C18  Purity of the splitter.  Any two calls of split_statements made in *)
(* one process on the same input, whatever calls come between them, have   *)
(* returned the same statements, and each has returned what the scan of    *)
(* its input from fresh locals returns.                                    *)
(***************************************************************************)
C18_Purity ==
    \A a, b \in 1..Len(history) :
       /\ history[a].input = history[b].input =>
             history[a].output = history[b].output
       /\ history[a].output = split_statements(history[a].input)

C18_Witness ==
    /\ pc = "idle"
    /\ Len(history) = 3
    /\ history[1].input = DocThree
    /\ history[2].input = <<"'", ";", "a">>
    /\ history[3].input = DocThree
    /\ history[3].output = << <<"a">>, <<"b">>, <<"c">> >>

(***************************************************************************)
(* C20  Runner liveness.  If the process keeps running and every call to   *)
(* the service returns, a run that has entered the execution loop          *)
(* eventually is in the all-succeeded or in the failed state; it never     *)
(* makes more than N calls, and a terminal state is never left.            *)
(***************************************************************************)
C20_RunnerLiveness ==
    /\ (pc \in {"loop", "query"}) ~> Terminal
    /\ [](Len(calls) <= Len(statements) \/ ~Cleaned)
    /\ [][Terminal => UNCHANGED vars]_vars

C20_Witness ==
    /\ pc = "done"
    /\ Len(statements) = 2
    /\ Len(calls) = 2
    /\ calls[2].status = "ok"

(***************************************************************************)
(* C21  Mode-agnostic escape.  Whatever the quote flags are, both unset    *)
(* included, an iteration that reads a backslash followed by a semicolon   *)
(* appends the two characters and does not split: the statements, the      *)
(* split positions and the flags are unchanged, and no split position is   *)
(* ever the position after a backslash consumed as an escape.  An          *)
(* iteration that reads a backslash as the last character of the input     *)
(* appends it like any other character.  The document  a\;b  gives the     *)
(* single statement  a\;b.                                                 *)
(***************************************************************************)
C21_EscapedSemicolonStep ==
    (/\ InScanLoop
     /\ sql_content[scan.i + 1] = "\\"
     /\ scan.i + 1 < Len(sql_content)
     /\ sql_content[scan.i + 2] = ";")
    => /\ scan'.statements = scan.statements
       /\ scan'.current = scan.current \o <<"\\", ";">>
       /\ scan'.in_single_quote = scan.in_single_quote
       /\ scan'.in_double_quote = scan.in_double_quote
       /\ scan'.i = scan.i + 2
       /\ splits' = splits
       /\ (scan.i + 1) \notin splits'

C21_TrailingBackslashStep ==
    (/\ InScanLoop
     /\ sql_content[scan.i + 1] = "\\"
     /\ scan.i + 1 = Len(sql_content))
    => /\ scan' = [scan EXCEPT !.current = Append(scan.current, "\\"),
                               !.i = scan.i + 1]
       /\ splits' = splits

C21_EscapedSemiExample ==
    Scanned /\ sql_content = DocEscapedSemi
    => raw_statements = <<DocEscapedSemi>> /\ splits = {}

C21_ModeAgnosticEscape ==
    /\ [][C21_EscapedSemicolonStep]_vars
    /\ [][C21_TrailingBackslashStep]_vars
    /\ []C21_EscapedSemiExample

C21_Witness ==
    /\ pc = "scan"
    /\ sql_content = DocEscapedSemi
    /\ scan.i = 3
    /\ ~scan.in_single_quote
    /\ ~scan.in_double_quote
    /\ scan.current = <<"a", "\\", ";">>
    /\ scan.statements = <<>>
    /\ splits = {}

(***************************************************************************)
(* C22  Unbalanced quotes.  While a quote flag is set no iteration splits, *)
(* and the quote that set it is in the current buffer, that is, after the  *)
(* last split position.  When the scan ends with a flag still set, the     *)
(* scan has returned normally, and the last statement returned is the      *)
(* trimmed text from the last split position to the end of the input,      *)
(* which holds the open quote and every semicolon after it.                *)
(***************************************************************************)
QuoteOpen(st) == st.in_single_quote \/ st.in_double_quote

Occurs(char, s) == \E p \in 1..Len(s) : s[p] = char

C22_OpenQuoteStep ==
    (InScanLoop /\ QuoteOpen(scan))
    => /\ splits' = splits
       /\ scan'.statements = scan.statements
       /\ Len(scan'.current) > Len(scan.current)

C22_OpenQuoteInBuffer ==
    pc = "scan" =>
       /\ scan.in_single_quote => Occurs("'", scan.current)
       /\ scan.in_double_quote => Occurs("\"", scan.current)

C22_UnclosedAtEnd ==
    (Scanned /\ QuoteOpen(scan)) =>
       /\ pc # "crashed"
       /\ raw_statements # <<>>
       /\ raw_statements = Append(scan.statements, strip(scan.current))
       /\ raw_statements[Len(raw_statements)] = TailText
       /\ scan.in_single_quote => Occurs("'", TailText)
       /\ scan.in_double_quote => Occurs("\"", TailText)

C22_UnbalancedQuotes ==
    /\ [][C22_OpenQuoteStep]_vars
    /\ []C22_OpenQuoteInBuffer
    /\ []C22_UnclosedAtEnd

C22_Witness ==
    /\ pc = "clean"
    /\ k = 0
    /\ sql_content = <<"a", ";", "'", ";">>
    /\ scan.in_single_quote
    /\ splits = {1}
    /\ raw_statements = << <<"a">>, <<"'", ";">> >>

(***************************************************************************)
(* C23  Nested quote of the other kind.  An iteration that reads, outside  *)
(* an escape, a double quote while the single-quote flag is set, or a      *)
(* single quote while the double-quote flag is set, leaves both flags as   *)
(* they are and appends the character.  A flag that is set is cleared only *)
(* by an iteration that reads, outside an escape, the quote of its kind.   *)
(***************************************************************************)
C23_NestedQuoteStep ==
    (/\ InScanLoop
     /\ ~IsEscape(sql_content, scan.i)
     /\ \/ sql_content[scan.i + 1] = "\"" /\ scan.in_single_quote
        \/ sql_content[scan.i + 1] = "'" /\ scan.in_double_quote)
    => /\ scan' = [scan EXCEPT
                     !.current = Append(scan.current,
                                        sql_content[scan.i + 1]),
                     !.i = scan.i + 1]
       /\ splits' = splits

C23_ClosedByOwnKindStep ==
    /\ (pc = "scan" /\ scan.in_single_quote /\ ~scan'.in_single_quote)
       => /\ sql_content[scan.i + 1] = "'"
          /\ scan'.i = scan.i + 1
    /\ (pc = "scan" /\ scan.in_double_quote /\ ~scan'.in_double_quote)
       => /\ sql_content[scan.i + 1] = "\""
          /\ scan'.i = scan.i + 1

C23_NestedQuote ==
    /\ [][C23_NestedQuoteStep]_vars
    /\ [][C23_ClosedByOwnKindStep]_vars

C23_Witness ==
    /\ pc = "scan"
    /\ sql_content = <<"'", "\"", ";">>
    /\ scan.i = 2
    /\ scan.in_single_quote
    /\ ~scan.in_double_quote
    /\ scan.current = <<"'", "\"">>

(***************************************************************************)
(* C24  Only four characters are structurally significant.  Two inputs of  *)
(* equal length that have semicolons, quotes and backslashes at the same   *)
(* positions split at the same positions: the scan of an input splits      *)
(* where the scan of its skeleton does (every other character replaced by  *)
(* one letter), and for inputs of at most TwinLen characters, where the    *)
(* scan of each input with the same skeleton does.  A comment marker       *)
(* changes nothing: replacing every - by a letter keeps the positions.     *)
(***************************************************************************)
TwinLen == 3

Significant == {";", "'", "\"", "\\"}

Skeleton(s) == [p \in 1..Len(s) |-> IF s[p] \in Significant THEN s[p] ELSE "a"]

Undashed(s) == [p \in 1..Len(s) |-> IF s[p] = "-" THEN "a" ELSE s[p]]

\* the inputs over Alphabet with the four characters where s has them
RECURSIVE Twins(_)
Twins(s) ==
    IF s = <<>> THEN {<<>>}
    ELSE LET heads == IF Head(s) \in Significant THEN {Head(s)}
                      ELSE Alphabet \ Significant
         IN  {<<c>> \o t : c \in heads, t \in Twins(Tail(s))}

C24_OnlySignificant ==
    (pc = "clean" /\ k = 0) =>
       /\ splits = split_points(Skeleton(sql_content))
       /\ splits = split_points(Undashed(sql_content))
       /\ Len(sql_content) <= TwinLen =>
             \A t \in Twins(sql_content) : split_points(t) = splits

C24_Witness ==
    /\ pc = "clean"
    /\ k = 0
    /\ sql_content = <<"-", "-", "'", ";">>
    /\ scan.in_single_quote
    /\ splits = {}
    /\ split_points(<<"a", "a", "'", ";">>) = {}
    /\ split_points(<<"-", "-", "a", ";">>) = {3}

(***************************************************************************)
(* C25  Progress ordering.  Of the lines printed, those of the execution   *)
(* loop alternate: the progress line of statement j, showing position j    *)
(* and the total N, is the line 2j-1 and is there as soon as statement j   *)
(* is submitted; the line 2j is there once the service has answered for j, *)
(* never before, and is the success marker if j succeeded and the failure  *)
(* line if j failed.  So the positions run 1, 2, ... without a gap, and    *)
(* when statement k fails there are k progress lines and k-1 success       *)
(* markers.  A step that submits a statement has printed its progress line *)
(* and no success marker.                                                  *)
(***************************************************************************)
IsLoopLine(l) == l.kind \in {"progress", "success", "failed"}

LoopLines == SelectSeq(out, IsLoopLine)

IsSuccess(l) == l.kind = "success"

SuccessLines == SelectSeq(out, IsSuccess)

C25_Alternation ==
    Cleaned =>
       /\ Len(ProgressLines) = Len(calls)
       /\ Len(LoopLines) = 2 * Len(calls) - Cardinality(RunningCalls)
       /\ \A j \in 1..Len(calls) :
             /\ LoopLines[2 * j - 1] =
                   Line("progress", j, Len(statements),
                        preview_of(calls[j].stmt))
             /\ calls[j].status = "ok" => LoopLines[2 * j].kind = "success"
             /\ calls[j].status = "error" => LoopLines[2 * j].kind = "failed"
       /\ Len(SuccessLines) =
             Cardinality({j \in 1..Len(calls) : calls[j].status = "ok"})
       /\ pc = "failed" =>
             /\ Len(ProgressLines) = i
             /\ Len(SuccessLines) = i - 1
             /\ Len(calls) = i

C25_SubmitStep ==
    Len(calls') > Len(calls) =>
       /\ out'[Len(out')] = Line("progress", Len(calls'), Len(statements),
                                 preview_of(statements[Len(calls')]))
       /\ Len(out') = Len(out) + 1
       /\ calls'[Len(calls')].status = "running"

C25_ProgressOrdering ==
    /\ []C25_Alternation
    /\ [][C25_SubmitStep]_vars

C25_Witness ==
    /\ pc = "failed"
    /\ file_text = DocThree
    /\ i = 3
    /\ Len(ProgressLines) = 3
    /\ Len(SuccessLines) = 2
    /\ LoopLines[5] = Line("progress", 3, 3, <<"c">>)
    /\ LoopLines[6].kind = "failed"

C26_HandleState ==
    /\ clients \in {0, 1}
    /\ clients = 1 <=> Cleaned
    /\ calls # <<>> => clients = 1
    /\ (pc = "done" /\ statements = <<>>) => clients = 1 /\ calls = <<>>
    /\ pc = "crashed" => clients = 0 /\ calls = <<>>

C26_AcquireStep ==
    clients' # clients =>
       /\ pc = "clean"
       /\ sql_content = file_text
       /\ raw_statements = split_statements(file_text)
       /\ k = Len(raw_statements)
       /\ calls = <<>>
       /\ calls' = <<>>
       /\ clients' = 1

IsSplitFixpoint(s) ==
    /\ split_statements(s) = <<s>>
    /\ split_points(s) = {}

C27_SplitFixpoint ==
    /\ Scanned =>
          \A j \in 1..Len(raw_statements) : IsSplitFixpoint(raw_statements[j])
    /\ pc = "start" =>
          LET raw == split_statements(file_text) IN
          \A j \in 1..Len(raw) : IsSplitFixpoint(raw[j])

C27_Witness ==
    /\ pc = "clean"
    /\ k = 0
    /\ sql_content = <<"'", ";", "'", ";">>
    /\ raw_statements = << <<"'", ";", "'">> >>
    /\ split_statements(raw_statements[1]) = raw_statements

(***************************************************************************)
(* C28  Shape of executed text.  Every statement of the cleaned list, and  *)
(* so every statement a call has submitted, is non-empty, starts and ends  *)
(* with a non-whitespace character, has no blank line and no line that     *)
(* starts with -- once trimmed, and is returned unchanged by               *)
(* clean_statement.                                                        *)
(***************************************************************************)
ExecutableShape(s) ==
    /\ s # <<>>
    /\ Trimmed(s)
    /\ \A n \in 1..Len(split_lines(s)) :
          /\ ~IsBlankLine(split_lines(s)[n])
          /\ ~IsCommentLine(split_lines(s)[n])
    /\ clean_statement(s) = s

C28_ExecutedShape ==
    /\ \A j \in 1..Len(statements) : ExecutableShape(statements[j])
    /\ \A j \in 1..Len(calls) :
          /\ ExecutableShape(calls[j].stmt)
          /\ calls[j].stmt = statements[j]

C28_Witness ==
    /\ pc = "query"
    /\ file_text = DocCommentIndent
    /\ raw_statements = <<DocCommentIndent>>
    /\ calls = <<[stmt |-> <<"a">>, status |-> "running"]>>
    /\ clean_statement(<<"a">>) = <<"a">>

(***************************************************************************)
(* C29  Scan termination and bounds.  The scan starts with the cursor at   *)
(* 0; every iteration moves it forward by 1 or by 2 and never past the     *)
(* length L of the input; the escape branch, the only one that reads the   *)
(* character after the cursor, is taken only when that character exists;   *)
(* the loop is left with the cursor at L, and, if the process keeps        *)
(* running, the loop is left.                                              *)
(***************************************************************************)
C29_CursorStart ==
    (pc = "start" /\ pc' = "scan") => scan'.i = 0

C29_CursorStep ==
    InScanLoop =>
       /\ scan'.i - scan.i \in {1, 2}
       /\ scan'.i <= Len(sql_content)

C29_ReadsInBounds ==
    /\ pc = "scan" => scan.i \in 0..Len(sql_content)
    /\ InScanLoop =>
          /\ scan.i + 1 \in DOMAIN sql_content
          /\ IsEscape(sql_content, scan.i) =>
                scan.i + 2 \in DOMAIN sql_content
    /\ Scanned => scan.i = Len(sql_content)

C29_ScanTerminates ==
    /\ [][C29_CursorStart]_vars
    /\ [][C29_CursorStep]_vars
    /\ []C29_ReadsInBounds
    /\ (pc = "scan") ~> (pc = "clean")

C29_Witness ==
    /\ pc = "clean"
    /\ k = 0
    /\ sql_content = <<"\\", "\\">>
    /\ scan.i = 2
    /\ raw_statements = << <<"\\", "\\">> >>

Logged(kind, about) == \E n \in 1..Len(log) : log[n] = Entry(kind, about)

IsFetched(n) == ~Logged("warning", DATASETS[n])

\* the datasets, among the first n, whose fetch has not failed
FetchedOf(n) ==
    LET ids == SelectSeq([j \in 1..n |-> j], IsFetched)
    IN  [j \in 1..Len(ids) |-> DATASETS[ids[j]]]

C30_Extraction ==
    script = "extract_metadata" =>
       /\ step # "raised"
       /\ fetched \in 0..Len(DATASETS)
       /\ datasets = FetchedOf(fetched)
       /\ step \in {"rest", "report", "ended"} => fetched = Len(DATASETS)
       /\ step = "ended" => log[Len(log)] = Entry("summary", "")

C30_ScheduledQuery ==
    script = "create_scheduled_query" =>
       /\ Logged("error", "list") => step \in {"create", "ended", "raised"}
       /\ step = "ended" <=> Logged("created", "")
       /\ step = "raised" <=> Logged("error", "create")
       /\ step = "raised" => ~Logged("done", "")

C30_StreamInsert ==
    script = "stream_insert" =>
       /\ Logged("error", "shipping_events") =>
             step \in {"payments", "buffer", "ended", "raised"}
       /\ Logged("error", "payments") => step \in {"buffer", "ended", "raised"}
       /\ step = "raised" => ~Logged("done", "")
       /\ step = "ended" => log[Len(log)] = Entry("done", "")

=============================================================================
